---- MODULE Spec2Model ----
(***************************************************************************)
(* Trackscargo backend: multi-tenant shipment ledger, identity directory   *)
(* and invitation workflow, modelled over the relational store the         *)
(* services talk to.  Text values are sequences of one-character strings   *)
(* so that slug derivation, initials derivation, trimming and tracking     *)
(* number composition are computed the way the code computes them.         *)
(***************************************************************************)
EXTENDS Integers, Sequences, FiniteSets, TLC

(***************************************************************************)
(* Bounds of the model.                                                    *)
(***************************************************************************)
MaxOrgs == 2
MaxShipments == 2
MaxEvents == 2
MaxTime == 1
MaxLogEvents == 3
MaxLogTime == 2
MaxCalls == 3
MaxRaceTime == 3
MaxIdentOrgs == 3
MaxInvitations == 2
MaxIdentTime == 8
MaxNameLen == 5
MaxSuffixLen == 4

(***************************************************************************)
(* Program constants.                                                      *)
(***************************************************************************)
SlugMaxLen == 50
InitialsWordPrefix == 3
InitialsMax == 4
InviteDays == 7

(***************************************************************************)
(* Characters.                                                             *)
(***************************************************************************)
Upper == <<"A","B","C","D","E","F","G","H","I","J","K","L","M",
           "N","O","P","Q","R","S","T","U","V","W","X","Y","Z">>
Lower == <<"a","b","c","d","e","f","g","h","i","j","k","l","m",
           "n","o","p","q","r","s","t","u","v","w","x","y","z">>
Digits == {"0","1","2","3","4","5","6","7","8","9"}

IsUpper(c) == \E i \in 1..Len(Upper) : Upper[i] = c
IsLower(c) == \E i \in 1..Len(Lower) : Lower[i] = c
IsSpace(c) == c = " "

toUpperCase(c) == IF IsLower(c) THEN Upper[CHOOSE i \in 1..Len(Lower) : Lower[i] = c] ELSE c
toLowerCase(c) == IF IsUpper(c) THEN Lower[CHOOSE i \in 1..Len(Upper) : Upper[i] = c] ELSE c

MapSeq(s, F(_)) == [i \in 1..Len(s) |-> F(s[i])]

Substring(s, n) == IF Len(s) <= n THEN s ELSE SubSeq(s, 1, n)

RECURSIVE TrimLeft(_)
TrimLeft(s) == IF s # <<>> /\ IsSpace(Head(s)) THEN TrimLeft(Tail(s)) ELSE s

RECURSIVE TrimRight(_)
TrimRight(s) ==
    IF s # <<>> /\ IsSpace(s[Len(s)]) THEN TrimRight(SubSeq(s, 1, Len(s) - 1)) ELSE s

trim(s) == TrimRight(TrimLeft(s))

(***************************************************************************)
(* lib/utils: generateSlug.                                                *)
(***************************************************************************)
IsSlugChar(c) == IsLower(c) \/ c \in Digits

\* replace(/[^a-z0-9]+/g, '-'): every maximal run of other characters
\* becomes one hyphen
RECURSIVE ReplaceRuns(_, _)
ReplaceRuns(s, inRun) ==
    IF s = <<>> THEN <<>>
    ELSE IF IsSlugChar(Head(s)) THEN <<Head(s)>> \o ReplaceRuns(Tail(s), FALSE)
         ELSE IF inRun THEN ReplaceRuns(Tail(s), TRUE)
              ELSE <<"-">> \o ReplaceRuns(Tail(s), TRUE)

RECURSIVE StripLeadingHyphens(_)
StripLeadingHyphens(s) ==
    IF s # <<>> /\ Head(s) = "-" THEN StripLeadingHyphens(Tail(s)) ELSE s

RECURSIVE StripTrailingHyphens(_)
StripTrailingHyphens(s) ==
    IF s # <<>> /\ s[Len(s)] = "-"
    THEN StripTrailingHyphens(SubSeq(s, 1, Len(s) - 1)) ELSE s

generateSlug(name) ==
    Substring(StripTrailingHyphens(StripLeadingHyphens(
                  ReplaceRuns(MapSeq(name, toLowerCase), FALSE))), SlugMaxLen)

\* decimal rendering of the counter in `${baseSlug}-${counter}`
RECURSIVE NatToString(_)
NatToString(n) ==
    LET d == <<"0","1","2","3","4","5","6","7","8","9">>
    IN  IF n < 10 THEN <<d[n + 1]>> ELSE NatToString(n \div 10) \o <<d[(n % 10) + 1]>>

(***************************************************************************)
(* utils/trackingNumber.                                                   *)
(***************************************************************************)
\* split(/\s+/).filter(word => word.length > 0)
RECURSIVE SplitWords(_, _)
SplitWords(s, cur) ==
    IF s = <<>> THEN (IF cur = <<>> THEN <<>> ELSE <<cur>>)
    ELSE IF IsSpace(Head(s))
         THEN (IF cur = <<>> THEN <<>> ELSE <<cur>>) \o SplitWords(Tail(s), <<>>)
         ELSE SplitWords(Tail(s), Append(cur, Head(s)))

\* the characters replace(/[^A-Z\s]/g, '') keeps
IsNameChar(c) == IsUpper(c) \/ IsSpace(c)

ErrNameRequired == <<"Organization","name","is","required","to","generate","initials">>
ErrNameNoLetters == <<"Organization","name","must","contain","at","least","one","alphabetic","character">>
ErrInputRequired == <<"Tracking","number","input","is","required">>

Ok(v) == [ok |-> TRUE, val |-> v, err |-> <<>>]
Fail(e) == [ok |-> FALSE, val |-> <<>>, err |-> e]

\* faulty variant of generateOrgInitials: the non-alphabetic characters are
\* not removed
generateOrgInitials_Unfiltered(organizationName) ==
    IF trim(organizationName) = <<>> THEN Fail(ErrNameRequired)
    ELSE
      LET up == MapSeq(trim(organizationName), toUpperCase)
          words == SplitWords(up, <<>>)
      IN  IF Len(words) = 0 THEN Fail(ErrNameNoLetters)
          ELSE IF Len(words) = 1
               THEN Ok(IF Len(words[1]) >= InitialsWordPrefix
                       THEN SubSeq(words[1], 1, InitialsWordPrefix)
                       ELSE words[1])
          ELSE IF Len(words) = 2
               THEN Ok(<<words[1][1], words[2][1]>>)
          ELSE Ok(Substring([i \in 1..Len(words) |-> words[i][1]], InitialsMax))

generateOrgInitials(organizationName) ==
    IF trim(organizationName) = <<>> THEN Fail(ErrNameRequired)
    ELSE
      LET up == MapSeq(trim(organizationName), toUpperCase)
          cleaned == SelectSeq(up, IsNameChar)
          words == SplitWords(cleaned, <<>>)
      IN  IF Len(words) = 0 THEN Fail(ErrNameNoLetters)
          ELSE IF Len(words) = 1
               THEN Ok(IF Len(words[1]) >= InitialsWordPrefix
                       THEN SubSeq(words[1], 1, InitialsWordPrefix)
                       ELSE words[1])
          ELSE IF Len(words) = 2
               THEN Ok(<<words[1][1], words[2][1]>>)
          ELSE Ok(Substring([i \in 1..Len(words) |-> words[i][1]], InitialsMax))

\* faulty variant of generateTrackingNumber: the suffix joined untrimmed
generateTrackingNumber_Untrimmed(organizationName, userInput) ==
    LET initials == generateOrgInitials(organizationName)
    IN  IF ~initials.ok THEN initials
        ELSE IF trim(userInput) = <<>> THEN Fail(ErrInputRequired)
        ELSE Ok(initials.val \o <<"-">> \o userInput)

generateTrackingNumber(organizationName, userInput) ==
    LET initials == generateOrgInitials(organizationName)
        cleanInput == trim(userInput)
    IN  IF ~initials.ok THEN initials
        ELSE IF cleanInput = <<>> THEN Fail(ErrInputRequired)
        ELSE Ok(initials.val \o <<"-">> \o cleanInput)

\* String.split('-'): the pieces between hyphens, empty ones included
RECURSIVE SplitHyphen(_, _)
SplitHyphen(s, cur) ==
    IF s = <<>> THEN <<cur>>
    ELSE IF Head(s) = "-"
         THEN <<cur>> \o SplitHyphen(Tail(s), <<>>)
         ELSE SplitHyphen(Tail(s), Append(cur, Head(s)))

\* Array.join('-')
RECURSIVE JoinHyphen(_)
JoinHyphen(parts) ==
    IF parts = <<>> THEN <<>>
    ELSE IF Len(parts) = 1 THEN parts[1]
    ELSE parts[1] \o <<"-">> \o JoinHyphen(Tail(parts))

ErrInvalidFormat ==
    <<"Invalid", "tracking", "number", "format.", "Expected", "format:",
      "ORG-NUMBER">>

\* faulty variant of parseTrackingNumber: the second piece alone taken as the
\* user input
parseTrackingNumber_SecondPiece(fullTrackingNumber) ==
    LET parts == SplitHyphen(fullTrackingNumber, <<>>)
    IN  IF Len(parts) < 2 THEN Fail(ErrInvalidFormat)
        ELSE Ok([orgInitials |-> parts[1], userInput |-> parts[2]])

parseTrackingNumber(fullTrackingNumber) ==
    LET parts == SplitHyphen(fullTrackingNumber, <<>>)
    IN  IF Len(parts) < 2 THEN Fail(ErrInvalidFormat)
        ELSE Ok([orgInitials |-> parts[1], userInput |-> JoinHyphen(Tail(parts))])

(***************************************************************************)
(* Inputs the operations are called with.                                  *)
(***************************************************************************)
NameAcme == <<"A","c","m","e">>
NameAcme1 == <<"A","c","m","e"," ","1">>
NameAC == <<"A"," ","C">>
OrgNames == {NameAcme, NameAcme1, NameAC}
LedgerNames == {NameAcme, NameAC}
IdentNames == {NameAcme, NameAcme1}

\* e-mail addresses are opaque to the services: address number k
Emails == 1..MaxOrgs

\* caller-supplied tracking suffixes; the second differs from the first
\* only by surrounding blanks
Suffixes == { <<"7">>, <<" ","7"," ">>, <<"8">> }

InitialStatuses == {"picked-up"}
PatchStatuses == {"on-hold"}
EventStatuses == {"A", "B", "C"}
Statuses == InitialStatuses \cup PatchStatuses \cup EventStatuses
StatusCreated == "Created"

\* a value standing for an absent (undefined / null) field
None == "none"

\* the empty string: what the validator's trim leaves of a status made of
\* blanks only (notEmpty runs before trim)
EmptyStatus == ""

\* faulty variant of Truthy: the recalculation never requested
Truthy_Never(status) == FALSE

\* JavaScript truthiness of an optional string field: if (data.status)
Truthy(status) == status # None /\ status # EmptyStatus

OrgIds == 1..MaxOrgs
ShipmentIds == 1..MaxShipments
EventIds == 1..MaxLogEvents
CallIds == 1..MaxCalls

(***************************************************************************)
(* Error messages, as word sequences.                                      *)
(***************************************************************************)
ErrUserExists == <<"User","with","this","email","already","exists">>
ErrOrgNotFound == <<"Organization","not","found">>
ErrTrackingExists == <<"Tracking","number","already","exists","in","your","organization">>
ErrShipmentNotFound == <<"Shipment","not","found">>
ErrEventNotFound == <<"Travel","event","not","found">>
\* the store's rejection of a write that violates a unique index
ErrInvitationNotFound == <<"Invitation", "not", "found">>
ErrInvitationInvalid == <<"Invitation", "is", "invalid", "or", "has", "expired">>
ErrUserExistsInOrg ==
    <<"A", "user", "with", "this", "email", "already", "exists", "in", "this",
      "organization">>
ErrAlreadyMember ==
    <<"User", "is", "already", "a", "member", "of", "this", "organization">>
ErrInvitationPending ==
    <<"An", "invitation", "is", "already", "pending", "for", "this", "email">>
ErrRecordNotFound == <<"Record", "to", "update", "not", "found">>
ErrUniqueConstraint == <<"Unique","constraint","failed">>
NoError == <<>>

\* message.includes(words)
Includes(msg, words) ==
    \E i \in 0..(Len(msg) - Len(words)) :
        \A j \in 1..Len(words) : msg[i + j] = words[j]

(***************************************************************************)
(* State: the tables of the store, the clock, and the outcome of the last  *)
(* completed operation.                                                    *)
(***************************************************************************)
VARIABLES
    organizations,   \* [id, name, slug, ownerUserId]
    users,           \* [id, email, organizationId, role]
    shipments,       \* [id, trackingNumber, organizationId, currentStatus, createdByUserId]
    travelEvents,    \* [id, shipmentId, status, timestamp]
    invitations,     \* [id, organizationId, email, role, invitedByUserId, expiresAt, acceptedAt]
    nextUserId,      \* users created so far + 1
    nextEventId,     \* travel events created so far + 1
    nextInvitationId,\* invitations created so far + 1
    now,             \* the server clock
    statusSource,    \* shipment id -> who last wrote currentStatus: the "caller"
                     \* (createShipment, updateShipment) or the "events" path
    result,          \* outcome of the last completed operation
    calls            \* call id -> a service call in flight between two awaits

vars == <<organizations, users, shipments, travelEvents, invitations,
          nextUserId, nextEventId, nextInvitationId, now, statusSource, result,
          calls>>

identityVars == <<organizations, users, invitations, nextUserId, nextInvitationId>>
ledgerVars == <<shipments, travelEvents, nextEventId, statusSource>>

\* op: the operation; err: the message of the error it threw (NoError if it
\* returned); org: the caller's organization; id: the row addressed or created;
\* key: the text key involved (tracking number, slug); val: the ids returned
Result(op, err, org, id, key, val) ==
    [op |-> op, err |-> err, org |-> org, id |-> id, key |-> key, val |-> val]

\* acceptedAt of an invitation not accepted (null)
NullTime == 0 - 1

\* no invitation read yet
NoInvitation ==
    [id |-> 0, organizationId |-> 0, email |-> 0, role |-> None,
     invitedByUserId |-> 0, expiresAt |-> 0, acceptedAt |-> NullTime]

\* a call not yet started
IdleCall ==
    [pc |-> "idle", org |-> 0, user |-> 0, sid |-> 0, key |-> <<>>,
     status |-> None, ts |-> 0, eid |-> 0, inv |-> NoInvitation,
     err |-> NoError]

\* the empty store
InitStore ==
    /\ calls = [p \in CallIds |-> IdleCall]
    /\ organizations = {}
    /\ users = {}
    /\ shipments = {}
    /\ travelEvents = {}
    /\ invitations = {}
    /\ nextUserId = 1
    /\ nextEventId = 1
    /\ nextInvitationId = 1
    /\ now = 0
    /\ statusSource = <<>>

Init ==
    /\ InitStore
    /\ result = Result("init", NoError, 0, 0, <<>>, {})

(***************************************************************************)
(* Repositories.                                                           *)
(***************************************************************************)
\* OrganizationRepository.findById
OrgFindById(id) == {o \in organizations : o.id = id}

\* UserRepository.findByEmail
findByEmail(email) == {u \in users : u.email = email}

\* prisma.organization.findUnique({ where: { slug } })
findOrgBySlug(orgs, slug) == {o \in orgs : o.slug = slug}

\* faulty variant of findByTrackingNumber: the lookup scoped to one tenant
findByTrackingNumber_Scoped(trackingNumber) ==
    {s \in shipments : s.trackingNumber = trackingNumber /\ s.organizationId = 1}

\* ShipmentRepository
findByTrackingNumber(trackingNumber) ==
    {s \in shipments : s.trackingNumber = trackingNumber}

\* faulty variant of findByTrackingNumberAndOrganization: the organization
\* left out of the where clause
findByTrackingNumberAndOrganization_Global(trackingNumber, organizationId) ==
    {s \in shipments : s.trackingNumber = trackingNumber}

findByTrackingNumberAndOrganization(trackingNumber, organizationId) ==
    {s \in shipments : /\ s.trackingNumber = trackingNumber
                       /\ s.organizationId = organizationId}

\* faulty variant of findByOrganization: no where clause
findByOrganization_All(organizationId) == shipments

findByOrganization(organizationId) ==
    {s \in shipments : s.organizationId = organizationId}

findByIdAndOrganization(id, organizationId) ==
    {s \in shipments : s.id = id /\ s.organizationId = organizationId}

\* faulty variant of findTravelEventByIdAndOrganization: no join on the
\* owning shipment's organization
findTravelEventByIdAndOrganization_Unscoped(eventId, organizationId) ==
    {e \in travelEvents : e.id = eventId}

findTravelEventByIdAndOrganization(eventId, organizationId) ==
    {e \in travelEvents :
        /\ e.id = eventId
        /\ \E s \in shipments : /\ s.id = e.shipmentId
                                /\ s.organizationId = organizationId}

findTravelEventsByShipment(evs, shipmentId) ==
    {e \in evs : e.shipmentId = shipmentId}

\* faulty variant of updateStatus: the where clause missing, every shipment
\* is written
updateStatus_All(ships, shipmentId, status) ==
    {[s EXCEPT !.currentStatus = status] : s \in ships}

updateStatus(ships, shipmentId, status) ==
    {IF s.id = shipmentId THEN [s EXCEPT !.currentStatus = status] ELSE s : s \in ships}

\* faulty variant of ShipmentInsertAllowed: the unique index missing
ShipmentInsertAllowed_NoIndex(ships, organizationId, trackingNumber) == TRUE

\* unique index shipments(organization_id, tracking_number)
ShipmentInsertAllowed(ships, organizationId, trackingNumber) ==
    ~\E s \in ships : /\ s.organizationId = organizationId
                      /\ s.trackingNumber = trackingNumber

\* faulty variant of UserInsertAllowed: the unique index missing
UserInsertAllowed_NoIndex(us, email) == TRUE

\* unique index users(email)
UserInsertAllowed(us, email) == ~\E u \in us : u.email = email

\* unique index organizations(slug)
OrgInsertAllowed(orgs, slug) == ~\E o \in orgs : o.slug = slug

\* the record of who wrote currentStatus after an update that skipped the
\* recalculation: a status derived from the log is stale once an event's
\* status was overwritten (with the empty string) without recalculating
StaleSource(sid, status) ==
    [i \in DOMAIN statusSource |->
        IF i = sid /\ status = EmptyStatus /\ statusSource[i] = "events"
        THEN "stale" ELSE statusSource[i]]

SetSource(sid, src) ==
    [i \in (DOMAIN statusSource) \cup {sid} |->
        IF i = sid THEN src ELSE statusSource[i]]

(***************************************************************************)
(* lib/utils: generateUniqueSlug.                                          *)
(***************************************************************************)
RECURSIVE SlugLoop(_, _, _, _)
SlugLoop(orgs, baseSlug, slug, counter) ==
    IF findOrgBySlug(orgs, slug) # {}
    THEN SlugLoop(orgs, baseSlug, baseSlug \o <<"-">> \o NatToString(counter), counter + 1)
    ELSE slug

\* faulty variant of generateUniqueSlug: the suffixed candidate is not looked
\* up again
generateUniqueSlug_Once(orgs, name) ==
    IF findOrgBySlug(orgs, generateSlug(name)) # {}
    THEN generateSlug(name) \o <<"-", "1">>
    ELSE generateSlug(name)

generateUniqueSlug(orgs, name) ==
    SlugLoop(orgs, generateSlug(name), generateSlug(name), 1)

(***************************************************************************)
(* AuthService.createOrganization (signup), with                           *)
(* OrganizationRepository.createWithOwner as one transaction.              *)
(***************************************************************************)
createWithOwner(name, slug, email) ==
    LET oid == Cardinality(organizations) + 1
        uid == nextUserId
    IN  /\ organizations' = organizations \cup
              {[id |-> oid, name |-> name, slug |-> slug, ownerUserId |-> uid]}
        /\ users' = users \cup
              {[id |-> uid, email |-> email, organizationId |-> oid, role |-> "owner"]}
        /\ nextUserId' = nextUserId + 1
        /\ result' = Result("createOrganization", NoError, oid, uid, slug, {})

createOrganization(organizationName, email) ==
    /\ IF findByEmail(email) # {}
       THEN /\ result' = Result("createOrganization", ErrUserExists, 0, 0, <<>>, {email})
            /\ UNCHANGED <<organizations, users, nextUserId>>
       ELSE LET slug == generateUniqueSlug(organizations, organizationName)
            IN  IF OrgInsertAllowed(organizations, slug) /\ UserInsertAllowed(users, email)
                THEN createWithOwner(organizationName, slug, email)
                ELSE /\ result' = Result("createOrganization", ErrUniqueConstraint, 0, 0, <<>>, {email})
                     /\ UNCHANGED <<organizations, users, nextUserId>>
    /\ UNCHANGED <<invitations, nextInvitationId, now>>
    /\ UNCHANGED ledgerVars
    /\ UNCHANGED calls

(***************************************************************************)
(* ShipmentService.                                                        *)
(***************************************************************************)
createShipment(userInput, status, organizationId, createdByUserId) ==
    LET org == OrgFindById(organizationId)
        orgName == (CHOOSE o \in org : TRUE).name
        full == generateTrackingNumber(orgName, userInput)
        sid == Cardinality(shipments) + 1
        fail(e, key) ==
            /\ result' = Result("createShipment", e, organizationId, 0, key, {})
            /\ UNCHANGED <<shipments, statusSource>>
    IN  /\ IF org = {} THEN fail(ErrOrgNotFound, <<>>)
           ELSE IF ~full.ok THEN fail(full.err, <<>>)
           ELSE IF findByTrackingNumberAndOrganization(full.val, organizationId) # {}
                THEN fail(ErrTrackingExists, full.val)
           ELSE IF ~ShipmentInsertAllowed(shipments, organizationId, full.val)
                THEN fail(ErrUniqueConstraint, full.val)
           ELSE /\ shipments' = shipments \cup
                       {[id |-> sid, trackingNumber |-> full.val,
                         organizationId |-> organizationId,
                         currentStatus |-> status,
                         createdByUserId |-> createdByUserId]}
                /\ statusSource' = SetSource(sid, "caller")
                /\ result' = Result("createShipment", NoError, organizationId, sid,
                                    full.val,
                                    {e.id : e \in findTravelEventsByShipment(travelEvents, sid)})
        /\ UNCHANGED <<travelEvents, nextEventId, now>>
        /\ UNCHANGED identityVars
        /\ UNCHANGED calls

\* data.currentStatus = None: the patch touches other attributes only
updateShipment(shipmentId, organizationId, currentStatus) ==
    LET hit == findByIdAndOrganization(shipmentId, organizationId)
    IN  /\ IF hit = {} \/ currentStatus = None
           THEN UNCHANGED <<shipments, statusSource>>
           ELSE /\ shipments' = updateStatus(shipments, shipmentId, currentStatus)
                /\ statusSource' = SetSource(shipmentId, "caller")
        /\ result' = Result("updateShipment", NoError, organizationId, shipmentId,
                            <<>>, {s.id : s \in hit})
        /\ UNCHANGED <<travelEvents, nextEventId, now>>
        /\ UNCHANGED identityVars
        /\ UNCHANGED calls

addTravelEvent(shipmentId, organizationId, status) ==
    LET shipment == findByIdAndOrganization(shipmentId, organizationId)
        travelEvent == [id |-> nextEventId, shipmentId |-> shipmentId,
                        status |-> status, timestamp |-> now]
    IN  /\ IF shipment = {}
           THEN /\ result' = Result("addTravelEvent", ErrShipmentNotFound,
                                    organizationId, shipmentId, <<>>, {})
                /\ UNCHANGED ledgerVars
           ELSE /\ travelEvents' = travelEvents \cup {travelEvent}
                /\ nextEventId' = nextEventId + 1
                /\ shipments' = updateStatus(shipments, shipmentId, status)
                /\ statusSource' = SetSource(shipmentId, "events")
                /\ result' = Result("addTravelEvent", NoError, organizationId,
                                    shipmentId, <<>>, {travelEvent.id})
        /\ UNCHANGED now
        /\ UNCHANGED identityVars
        /\ UNCHANGED calls

\* faulty variant of LatestEvents: the sort ascending, the earliest events first
LatestEvents_Ascending(evs, shipmentId) ==
    {e \in findTravelEventsByShipment(evs, shipmentId) :
        \A f \in findTravelEventsByShipment(evs, shipmentId) : e.timestamp <= f.timestamp}

\* the events of a shipment that sort first by timestamp descending
LatestEvents(evs, shipmentId) ==
    {e \in findTravelEventsByShipment(evs, shipmentId) :
        \A f \in findTravelEventsByShipment(evs, shipmentId) : f.timestamp <= e.timestamp}

\* faulty variant of RecalculatedStatuses: the log as it was before the
\* mutation
RecalculatedStatuses_Stale(evs, shipmentId) ==
    IF findTravelEventsByShipment(travelEvents, shipmentId) = {}
    THEN {StatusCreated}
    ELSE {e.status : e \in LatestEvents(travelEvents, shipmentId)}

\* the statuses recalculateShipmentStatus may write: events[0] after the
\* sort, any of the latest events when timestamps tie
RecalculatedStatuses(evs, shipmentId) ==
    IF findTravelEventsByShipment(evs, shipmentId) = {}
    THEN {StatusCreated}
    ELSE {e.status : e \in LatestEvents(evs, shipmentId)}

recalculateShipmentStatus(evs, shipmentId) ==
    /\ \E st \in RecalculatedStatuses(evs, shipmentId) :
          shipments' = updateStatus(shipments, shipmentId, st)
    /\ statusSource' = SetSource(shipmentId, "events")

\* ShipmentRepository.updateTravelEvent: fields absent from the patch keep
\* their value
repoUpdateTravelEvent(evs, eventId, status) ==
    {IF e.id = eventId /\ status # None THEN [e EXCEPT !.status = status] ELSE e : e \in evs}

updateTravelEvent(eventId, organizationId, status) ==
    LET event == findTravelEventByIdAndOrganization(eventId, organizationId)
        shipmentId == (CHOOSE e \in event : TRUE).shipmentId
    IN  /\ IF event = {}
           THEN /\ result' = Result("updateTravelEvent", ErrEventNotFound,
                                    organizationId, eventId, <<>>, {})
                /\ UNCHANGED ledgerVars
           ELSE /\ travelEvents' = repoUpdateTravelEvent(travelEvents, eventId, status)
                /\ IF Truthy(status)
                   THEN recalculateShipmentStatus(travelEvents', shipmentId)
                   ELSE /\ UNCHANGED shipments
                        /\ statusSource' = StaleSource(shipmentId, status)
                /\ result' = Result("updateTravelEvent", NoError, organizationId,
                                    eventId, <<status>>, {shipmentId})
                /\ UNCHANGED nextEventId
        /\ UNCHANGED now
        /\ UNCHANGED identityVars
        /\ UNCHANGED calls

deleteTravelEvent(eventId, organizationId) ==
    LET event == findTravelEventByIdAndOrganization(eventId, organizationId)
        shipmentId == (CHOOSE e \in event : TRUE).shipmentId
    IN  /\ IF event = {}
           THEN /\ result' = Result("deleteTravelEvent", ErrEventNotFound,
                                    organizationId, eventId, <<>>, {})
                /\ UNCHANGED ledgerVars
           ELSE /\ travelEvents' = {e \in travelEvents : e.id # eventId}
                /\ recalculateShipmentStatus(travelEvents', shipmentId)
                /\ result' = Result("deleteTravelEvent", NoError, organizationId,
                                    eventId, <<>>, {shipmentId})
                /\ UNCHANGED nextEventId
        /\ UNCHANGED now
        /\ UNCHANGED identityVars
        /\ UNCHANGED calls

\* findFirst returns one of the matching rows, or null ({})
getByTrackingNumber(trackingNumber) ==
    /\ IF findByTrackingNumber(trackingNumber) = {}
       THEN result' = Result("getByTrackingNumber", NoError, 0, 0, trackingNumber, {})
       ELSE \E s \in findByTrackingNumber(trackingNumber) :
               result' = Result("getByTrackingNumber", NoError, 0, 0, trackingNumber, {s.id})
    /\ UNCHANGED <<now>>
    /\ UNCHANGED identityVars
    /\ UNCHANGED calls
    /\ UNCHANGED ledgerVars

getOrganizationShipments(organizationId) ==
    /\ result' = Result("getOrganizationShipments", NoError, organizationId, 0,
                        <<>>, {s.id : s \in findByOrganization(organizationId)})
    /\ UNCHANGED <<now>>
    /\ UNCHANGED identityVars
    /\ UNCHANGED calls
    /\ UNCHANGED ledgerVars

\* the server clock advances
Tick(maxTime) ==
    /\ now < maxTime
    /\ now' = now + 1
    /\ result' = Result("tick", NoError, 0, 0, <<>>, {})
    /\ UNCHANGED identityVars
    /\ UNCHANGED calls
    /\ UNCHANGED ledgerVars

(***************************************************************************)
(* The event engine: requests of up to MaxOrgs tenants, one at a time.     *)
(***************************************************************************)
Signup ==
    /\ Cardinality(organizations) < MaxOrgs
    /\ createOrganization(NameAcme, Cardinality(organizations) + 1)

CreateShipment ==
    /\ Cardinality(shipments) < MaxShipments
    /\ \E u \in users, x \in Suffixes, st \in InitialStatuses :
          createShipment(x, st, u.organizationId, u.id)

UpdateShipment ==
    \E u \in users, sid \in ShipmentIds, st \in PatchStatuses \cup {None} :
        updateShipment(sid, u.organizationId, st)

AddTravelEvent ==
    /\ nextEventId <= MaxEvents
    /\ \E u \in users, sid \in ShipmentIds, st \in {"A", "B"} :
          addTravelEvent(sid, u.organizationId, st)

\* a patch with a status, with a status of blanks only, or without one
UpdateTravelEvent ==
    \E u \in users, eid \in EventIds, st \in {"B", EmptyStatus, None} :
        updateTravelEvent(eid, u.organizationId, st)

DeleteTravelEvent ==
    \E u \in users, eid \in EventIds : deleteTravelEvent(eid, u.organizationId)

ClockTick == Tick(MaxTime)

Next ==
    \/ Signup
    \/ CreateShipment
    \/ UpdateShipment
    \/ AddTravelEvent
    \/ UpdateTravelEvent
    \/ DeleteTravelEvent
    \/ ClockTick

Spec == Init /\ [][Next]_vars

(***************************************************************************)
(* The shipment register and its read paths: tenants with differently and  *)
(* identically prefixed tracking numbers.                                  *)
(***************************************************************************)
TrackingNumbers ==
    {generateTrackingNumber(n, x).val : n \in LedgerNames, x \in Suffixes}

LedgerSignup ==
    /\ Cardinality(organizations) < MaxOrgs
    /\ \E n \in LedgerNames :
          createOrganization(n, Cardinality(organizations) + 1)

LedgerCreateShipment ==
    /\ Cardinality(shipments) < MaxShipments + 1
    /\ \E u \in users, x \in Suffixes, st \in InitialStatuses :
          createShipment(x, st, u.organizationId, u.id)

GetByTrackingNumber ==
    \E tn \in TrackingNumbers : getByTrackingNumber(tn)

GetOrganizationShipments ==
    \E o \in OrgIds : getOrganizationShipments(o)

NextLedger ==
    \/ LedgerSignup
    \/ LedgerCreateShipment
    \/ GetByTrackingNumber
    \/ GetOrganizationShipments

SpecLedger == Init /\ [][NextLedger]_vars

(***************************************************************************)
(* One tenant's event logs in depth: up to MaxLogEvents events.            *)
(***************************************************************************)
LogSignup ==
    /\ organizations = {}
    /\ createOrganization(NameAcme, 1)

LogAddTravelEvent ==
    /\ nextEventId <= MaxLogEvents
    /\ \E u \in users, sid \in ShipmentIds, st \in EventStatuses :
          addTravelEvent(sid, u.organizationId, st)

LogUpdateTravelEvent ==
    \E u \in users, eid \in EventIds, st \in EventStatuses \cup {None} :
        updateTravelEvent(eid, u.organizationId, st)

LogClockTick == Tick(MaxLogTime)

NextLog ==
    \/ LogSignup
    \/ CreateShipment
    \/ LogAddTravelEvent
    \/ LogUpdateTravelEvent
    \/ DeleteTravelEvent
    \/ LogClockTick

SpecLog == Init /\ [][NextLog]_vars

(***************************************************************************)
(* InvitationService with UserInvitationRepository and UserRepository.     *)
(* Time is counted in days; an invitation's token is its id.               *)
(***************************************************************************)
IdentEmails == 1..MaxIdentOrgs
InvitationIds == 1..MaxInvitations
Roles == {"member"}

\* UserRepository.findByEmailAndOrganization
findByEmailAndOrganization(email, organizationId) ==
    {u \in users : u.email = email /\ u.organizationId = organizationId}

\* UserInvitationRepository
findByOrganizationAndEmail(organizationId, email) ==
    {i \in invitations : /\ i.organizationId = organizationId
                         /\ i.email = email
                         /\ i.acceptedAt = NullTime
                         /\ i.expiresAt > now}

findByToken(token) == {i \in invitations : i.id = token}

\* faulty variant of isValid: the expiry not looked at
isValid_NoExpiry(token) ==
    /\ findByToken(token) # {}
    /\ \A i \in findByToken(token) : i.acceptedAt = NullTime

isValid(token) ==
    /\ findByToken(token) # {}
    /\ \A i \in findByToken(token) :
          /\ i.acceptedAt = NullTime
          /\ ~(i.expiresAt < now)

markAsAccepted(invs, id) ==
    {IF i.id = id THEN [i EXCEPT !.acceptedAt = now] ELSE i : i \in invs}

\* faulty variant of InvitationInsertAllowed: the unique index missing
InvitationInsertAllowed_NoIndex(invs, organizationId, email) == TRUE

\* unique index user_invitations(organization_id, email)
InvitationInsertAllowed(invs, organizationId, email) ==
    ~\E i \in invs : i.organizationId = organizationId /\ i.email = email

createInvitation(organizationId, invitedByUserId, email, role) ==
    LET fail(e) == /\ result' = Result("createInvitation", e, organizationId, 0,
                                       <<>>, {email})
                   /\ UNCHANGED <<invitations, nextInvitationId>>
    IN  /\ IF findByEmailAndOrganization(email, organizationId) # {}
           THEN fail(ErrAlreadyMember)
           ELSE IF findByOrganizationAndEmail(organizationId, email) # {}
           THEN fail(ErrInvitationPending)
           ELSE IF ~InvitationInsertAllowed(invitations, organizationId, email)
           THEN fail(ErrUniqueConstraint)
           ELSE /\ invitations' = invitations \cup
                       {[id |-> nextInvitationId, organizationId |-> organizationId,
                         email |-> email, role |-> role,
                         invitedByUserId |-> invitedByUserId,
                         expiresAt |-> now + InviteDays, acceptedAt |-> NullTime]}
                /\ nextInvitationId' = nextInvitationId + 1
                /\ result' = Result("createInvitation", NoError, organizationId,
                                    nextInvitationId, <<>>, {email})
        /\ UNCHANGED <<organizations, users, nextUserId, now>>
        /\ UNCHANGED ledgerVars
        /\ UNCHANGED calls

acceptInvitation(token) ==
    LET invitation == CHOOSE i \in findByToken(token) : TRUE
        fail(e) == /\ result' = Result("acceptInvitation", e, 0, token, <<>>, {})
                   /\ UNCHANGED <<users, nextUserId, invitations>>
    IN  /\ IF findByToken(token) = {} THEN fail(ErrInvitationNotFound)
           ELSE IF ~isValid(token) THEN fail(ErrInvitationInvalid)
           ELSE IF findByEmailAndOrganization(invitation.email,
                                              invitation.organizationId) # {}
           THEN fail(ErrUserExistsInOrg)
           ELSE IF ~UserInsertAllowed(users, invitation.email)
           THEN fail(ErrUniqueConstraint)
           ELSE /\ users' = users \cup
                       {[id |-> nextUserId, email |-> invitation.email,
                         organizationId |-> invitation.organizationId,
                         role |-> invitation.role]}
                /\ nextUserId' = nextUserId + 1
                /\ invitations' = markAsAccepted(invitations, invitation.id)
                /\ result' = Result("acceptInvitation", NoError,
                                    invitation.organizationId, token, <<>>,
                                    {invitation.email})
        /\ UNCHANGED <<organizations, nextInvitationId, now>>
        /\ UNCHANGED ledgerVars
        /\ UNCHANGED calls

\* days pass
Elapse(days, maxTime) ==
    /\ now + days <= maxTime
    /\ now' = now + days
    /\ result' = Result("tick", NoError, 0, 0, <<>>, {})
    /\ UNCHANGED identityVars
    /\ UNCHANGED ledgerVars
    /\ UNCHANGED calls

(***************************************************************************)
(* Signup and invitations: organizations of equal and of colliding names,  *)
(* owners and invitees drawn from the same e-mail addresses.               *)
(***************************************************************************)
IdentSignup ==
    /\ Cardinality(organizations) < MaxIdentOrgs
    /\ \E n \in IdentNames, e \in IdentEmails : createOrganization(n, e)

CreateInvitation ==
    /\ nextInvitationId <= MaxInvitations
    /\ \E u \in users, e \in IdentEmails, r \in Roles :
          createInvitation(u.organizationId, u.id, e, r)

AcceptInvitation == \E t \in InvitationIds : acceptInvitation(t)

\* to the day an invitation expires, or past it
DaysPass == \E d \in {InviteDays, InviteDays + 1} : Elapse(d, MaxIdentTime)

NextIdent ==
    \/ IdentSignup
    \/ CreateInvitation
    \/ AcceptInvitation
    \/ DaysPass

SpecIdent == Init /\ [][NextIdent]_vars

(***************************************************************************)
(* Calls in flight.  Each await of a service method is a point where other *)
(* requests run; a call is a sequence of steps, one per data-store round   *)
(* trip, and holds what it read in calls[p] between them.                  *)
(***************************************************************************)
CallDone(p, err) == [calls EXCEPT ![p].pc = "done", ![p].err = err]

\* createShipment up to its second await: the organization lookup, the
\* tracking number, the existence check
createShipmentCheck(p, userInput, status, organizationId, createdByUserId) ==
    LET org == OrgFindById(organizationId)
        orgName == (CHOOSE o \in org : TRUE).name
        full == generateTrackingNumber(orgName, userInput)
        fail(e, key) ==
            /\ result' = Result("createShipment", e, organizationId, 0, key, {})
            /\ calls' = [CallDone(p, e) EXCEPT ![p].org = organizationId,
                                               ![p].key = key]
    IN  /\ calls[p].pc = "idle"
        /\ IF org = {} THEN fail(ErrOrgNotFound, <<>>)
           ELSE IF ~full.ok THEN fail(full.err, <<>>)
           ELSE IF findByTrackingNumberAndOrganization(full.val, organizationId) # {}
                THEN fail(ErrTrackingExists, full.val)
           ELSE /\ calls' = [calls EXCEPT ![p] =
                       [IdleCall EXCEPT !.pc = "create", !.org = organizationId,
                                        !.user = createdByUserId,
                                        !.key = full.val, !.status = status]]
                /\ UNCHANGED result
        /\ UNCHANGED <<now>>
        /\ UNCHANGED identityVars
        /\ UNCHANGED ledgerVars

\* createShipment from ShipmentRepository.create on: the insert, which the
\* unique index may refuse, and the refetch
createShipmentCreate(p) ==
    LET c == calls[p]
        sid == Cardinality(shipments) + 1
    IN  /\ c.pc = "create"
        /\ IF ShipmentInsertAllowed(shipments, c.org, c.key)
           THEN /\ shipments' = shipments \cup
                       {[id |-> sid, trackingNumber |-> c.key,
                         organizationId |-> c.org,
                         currentStatus |-> c.status,
                         createdByUserId |-> c.user]}
                /\ statusSource' = SetSource(sid, "caller")
                /\ result' = Result("createShipment", NoError, c.org, sid, c.key,
                                    {e.id : e \in findTravelEventsByShipment(travelEvents, sid)})
                /\ calls' = [CallDone(p, NoError) EXCEPT ![p].sid = sid]
           ELSE /\ result' = Result("createShipment", ErrUniqueConstraint, c.org, 0,
                                    c.key, {})
                /\ calls' = CallDone(p, ErrUniqueConstraint)
                /\ UNCHANGED <<shipments, statusSource>>
        /\ UNCHANGED <<travelEvents, nextEventId, now>>
        /\ UNCHANGED identityVars

\* addTravelEvent up to the insert it issues: the scoped lookup, then
\* new Date() as the arguments of ShipmentRepository.addTravelEvent are built
addTravelEventFind(p, shipmentId, organizationId, status) ==
    LET shipment == findByIdAndOrganization(shipmentId, organizationId)
    IN  /\ calls[p].pc = "idle"
        /\ IF shipment = {}
           THEN /\ result' = Result("addTravelEvent", ErrShipmentNotFound,
                                    organizationId, shipmentId, <<>>, {})
                /\ calls' = [CallDone(p, ErrShipmentNotFound) EXCEPT
                                ![p].org = organizationId, ![p].sid = shipmentId]
           ELSE /\ calls' = [calls EXCEPT ![p] =
                       [IdleCall EXCEPT !.pc = "insert", !.org = organizationId,
                                        !.sid = shipmentId, !.status = status,
                                        !.ts = now]]
                /\ UNCHANGED result
        /\ UNCHANGED <<now>>
        /\ UNCHANGED identityVars
        /\ UNCHANGED ledgerVars

\* the insert of the travel event reaches the store
addTravelEventInsert(p) ==
    LET c == calls[p]
    IN  /\ c.pc = "insert"
        /\ travelEvents' = travelEvents \cup
               {[id |-> nextEventId, shipmentId |-> c.sid,
                 status |-> c.status, timestamp |-> c.ts]}
        /\ nextEventId' = nextEventId + 1
        /\ calls' = [calls EXCEPT ![p].pc = "updateStatus", ![p].eid = nextEventId]
        /\ UNCHANGED <<shipments, statusSource, now, result>>
        /\ UNCHANGED identityVars

\* faulty variant of addTravelEventUpdateStatus: the status recalculated from
\* the log instead of overwritten
addTravelEventUpdateStatus_Recalculate(p) ==
    LET c == calls[p]
    IN  /\ c.pc = "updateStatus"
        /\ recalculateShipmentStatus(travelEvents, c.sid)
        /\ result' = Result("addTravelEvent", NoError, c.org, c.sid, <<>>, {c.eid})
        /\ calls' = CallDone(p, NoError)
        /\ UNCHANGED <<travelEvents, nextEventId, now>>
        /\ UNCHANGED identityVars

\* ShipmentRepository.updateStatus(shipmentId, data.status) and the return
addTravelEventUpdateStatus(p) ==
    LET c == calls[p]
    IN  /\ c.pc = "updateStatus"
        /\ shipments' = updateStatus(shipments, c.sid, c.status)
        /\ statusSource' = SetSource(c.sid, "events")
        /\ result' = Result("addTravelEvent", NoError, c.org, c.sid, <<>>, {c.eid})
        /\ calls' = CallDone(p, NoError)
        /\ UNCHANGED <<travelEvents, nextEventId, now>>
        /\ UNCHANGED identityVars

(***************************************************************************)
(* Racing createShipment calls.                                            *)
(***************************************************************************)
CreateShipmentCheck ==
    \E p \in CallIds, u \in users, x \in Suffixes, st \in InitialStatuses :
        createShipmentCheck(p, x, st, u.organizationId, u.id)

CreateShipmentCreate == \E p \in CallIds : createShipmentCreate(p)

NextCreateRace ==
    \/ Signup
    \/ CreateShipmentCheck
    \/ CreateShipmentCreate

SpecCreateRace == Init /\ [][NextCreateRace]_vars

(***************************************************************************)
(* Racing addTravelEvent calls on one tenant's shipments.                  *)
(***************************************************************************)
\* one shipment to append to
RaceCreateShipment ==
    /\ shipments = {}
    /\ \E u \in users, x \in Suffixes, st \in InitialStatuses :
          createShipment(x, st, u.organizationId, u.id)

\* requests are numbered in the order they arrive
AddTravelEventFind ==
    \E p \in CallIds, u \in users, sid \in ShipmentIds, st \in EventStatuses :
        /\ \A q \in CallIds : q < p => calls[q].pc # "idle"
        /\ addTravelEventFind(p, sid, u.organizationId, st)

AddTravelEventInsert == \E p \in CallIds : addTravelEventInsert(p)

AddTravelEventUpdateStatus == \E p \in CallIds : addTravelEventUpdateStatus(p)

RaceClockTick == Tick(MaxRaceTime)

NextAppendRace ==
    \/ LogSignup
    \/ RaceCreateShipment
    \/ AddTravelEventFind
    \/ AddTravelEventInsert
    \/ AddTravelEventUpdateStatus
    \/ RaceClockTick

SpecAppendRace == Init /\ [][NextAppendRace]_vars

(***************************************************************************)
(* Racing acceptInvitation calls.                                          *)
(***************************************************************************)
\* UserInvitationRepository.findByToken; the invitation read stays in the
\* call's locals
acceptInvitationFind(p, token) ==
    /\ calls[p].pc = "idle"
    /\ IF findByToken(token) = {}
       THEN /\ result' = Result("acceptInvitation", ErrInvitationNotFound, 0, token,
                                <<>>, {})
            /\ calls' = [CallDone(p, ErrInvitationNotFound) EXCEPT ![p].eid = token]
       ELSE /\ \E i \in findByToken(token) :
                  calls' = [calls EXCEPT ![p] =
                      [IdleCall EXCEPT !.pc = "isValid", !.eid = token, !.inv = i]]
            /\ UNCHANGED result
    /\ UNCHANGED <<now>>
    /\ UNCHANGED identityVars
    /\ UNCHANGED ledgerVars

\* UserInvitationRepository.isValid(token)
acceptInvitationIsValid(p) ==
    LET c == calls[p]
    IN  /\ c.pc = "isValid"
        /\ IF ~isValid(c.eid)
           THEN /\ result' = Result("acceptInvitation", ErrInvitationInvalid, 0, c.eid,
                                    <<>>, {})
                /\ calls' = CallDone(p, ErrInvitationInvalid)
           ELSE /\ calls' = [calls EXCEPT ![p].pc = "checkUser"]
                /\ UNCHANGED result
        /\ UNCHANGED <<now>>
        /\ UNCHANGED identityVars
        /\ UNCHANGED ledgerVars

\* UserRepository.findByEmailAndOrganization, then the password hash
acceptInvitationCheckUser(p) ==
    LET c == calls[p]
    IN  /\ c.pc = "checkUser"
        /\ IF findByEmailAndOrganization(c.inv.email, c.inv.organizationId) # {}
           THEN /\ result' = Result("acceptInvitation", ErrUserExistsInOrg, 0, c.eid,
                                    <<>>, {})
                /\ calls' = CallDone(p, ErrUserExistsInOrg)
           ELSE /\ calls' = [calls EXCEPT ![p].pc = "create"]
                /\ UNCHANGED result
        /\ UNCHANGED <<now>>
        /\ UNCHANGED identityVars
        /\ UNCHANGED ledgerVars

\* UserRepository.create, which the unique index on email may refuse
acceptInvitationCreate(p) ==
    LET c == calls[p]
    IN  /\ c.pc = "create"
        /\ IF ~UserInsertAllowed(users, c.inv.email)
           THEN /\ result' = Result("acceptInvitation", ErrUniqueConstraint, 0, c.eid,
                                    <<>>, {})
                /\ calls' = CallDone(p, ErrUniqueConstraint)
                /\ UNCHANGED <<users, nextUserId>>
           ELSE /\ users' = users \cup
                       {[id |-> nextUserId, email |-> c.inv.email,
                         organizationId |-> c.inv.organizationId,
                         role |-> c.inv.role]}
                /\ nextUserId' = nextUserId + 1
                /\ calls' = [calls EXCEPT ![p].pc = "markAsAccepted",
                                          ![p].user = nextUserId]
                /\ UNCHANGED result
        /\ UNCHANGED <<organizations, invitations, nextInvitationId, now>>
        /\ UNCHANGED ledgerVars

\* UserInvitationRepository.markAsAccepted(invitation.id): the update throws
\* when the row is gone; then the return
acceptInvitationMarkAsAccepted(p) ==
    LET c == calls[p]
    IN  /\ c.pc = "markAsAccepted"
        /\ IF \E i \in invitations : i.id = c.inv.id
           THEN /\ invitations' = markAsAccepted(invitations, c.inv.id)
                /\ result' = Result("acceptInvitation", NoError,
                                    c.inv.organizationId, c.eid, <<>>, {c.inv.email})
                /\ calls' = CallDone(p, NoError)
           ELSE /\ result' = Result("acceptInvitation", ErrRecordNotFound, 0, c.eid,
                                    <<>>, {})
                /\ calls' = CallDone(p, ErrRecordNotFound)
                /\ UNCHANGED invitations
        /\ UNCHANGED <<organizations, users, nextUserId, nextInvitationId, now>>
        /\ UNCHANGED ledgerVars

AcceptInvitationFind ==
    \E p \in CallIds, t \in InvitationIds :
        /\ \A q \in CallIds : q < p => calls[q].pc # "idle"
        /\ acceptInvitationFind(p, t)

AcceptInvitationIsValid == \E p \in CallIds : acceptInvitationIsValid(p)

AcceptInvitationCheckUser == \E p \in CallIds : acceptInvitationCheckUser(p)

AcceptInvitationCreate == \E p \in CallIds : acceptInvitationCreate(p)

AcceptInvitationMarkAsAccepted == \E p \in CallIds : acceptInvitationMarkAsAccepted(p)

NextAcceptRace ==
    \/ Signup
    \/ CreateInvitation
    \/ AcceptInvitationFind
    \/ AcceptInvitationIsValid
    \/ AcceptInvitationCheckUser
    \/ AcceptInvitationCreate
    \/ AcceptInvitationMarkAsAccepted
    \/ DaysPass

SpecAcceptRace == Init /\ [][NextAcceptRace]_vars

(***************************************************************************)
(* utils/trackingNumber called on its own: organization names over a small *)
(* alphabet, and the documented examples.                                  *)
(***************************************************************************)
Strings(chars, n) == UNION {[1..k -> chars] : k \in 0..n}

NameChars == {"a", "Z", " ", "1", "-"}

NameReusLogistics ==
    <<"R","e","u","s"," ","L","o","g","i","s","t","i","c","s">>
NameFiveWords == <<"a"," ","b"," ","c"," ","d"," ","e">>

InitialsNames ==
    Strings(NameChars, MaxNameLen) \cup {NameReusLogistics, NameFiveWords}

InitInitials ==
    /\ InitStore
    /\ \E n \in InitialsNames : result = Result("input", NoError, 0, 0, n, {})

GenerateOrgInitials ==
    /\ result.op = "input"
    /\ LET r == generateOrgInitials(result.key)
       IN  result' = Result("generateOrgInitials", r.err, 0, 0, result.key,
                            IF r.ok THEN {r.val} ELSE {})
    /\ UNCHANGED <<now>>
    /\ UNCHANGED identityVars
    /\ UNCHANGED ledgerVars
    /\ UNCHANGED calls

NextInitials == GenerateOrgInitials

SpecInitials == InitInitials /\ [][NextInitials]_vars

SuffixChars == {"7", "-", " "}

NameDigits == <<"4", "2">>

TrackingNames == LedgerNames \cup {NameReusLogistics, NameDigits}

InitTracking ==
    /\ InitStore
    /\ \E n \in TrackingNames, x \in Strings(SuffixChars, MaxSuffixLen) :
          result = Result("input", NoError, 0, 0, <<n, x>>, {})

GenerateTrackingNumber ==
    /\ result.op = "input"
    /\ LET r == generateTrackingNumber(result.key[1], result.key[2])
       IN  result' = Result("generateTrackingNumber", r.err, 0, 0, result.key,
                            IF r.ok THEN {r.val} ELSE {})
    /\ UNCHANGED <<now>>
    /\ UNCHANGED identityVars
    /\ UNCHANGED ledgerVars
    /\ UNCHANGED calls

\* the composed tracking number parsed back
ParseGenerated ==
    /\ result.op = "generateTrackingNumber"
    /\ \E full \in result.val :
          LET r == parseTrackingNumber(full)
          IN  result' = Result("parseTrackingNumber", r.err, 0, 0, result.key,
                               IF r.ok THEN {r.val} ELSE {})
    /\ UNCHANGED <<now>>
    /\ UNCHANGED identityVars
    /\ UNCHANGED ledgerVars
    /\ UNCHANGED calls

\* any text parsed as a tracking number
ParseTrackingNumber ==
    /\ result.op = "input"
    /\ LET r == parseTrackingNumber(result.key[2])
       IN  result' = Result("parseTrackingNumber", r.err, 0, 0, <<result.key[2]>>,
                            IF r.ok THEN {r.val} ELSE {})
    /\ UNCHANGED <<now>>
    /\ UNCHANGED identityVars
    /\ UNCHANGED ledgerVars
    /\ UNCHANGED calls

NextTracking ==
    \/ GenerateTrackingNumber
    \/ ParseGenerated
    \/ ParseTrackingNumber

SpecTracking == InitTracking /\ [][NextTracking]_vars

(***************************************************************************)
(* Properties of the event engine.                                         *)
(***************************************************************************)
EventsOf(sid) == {e \in travelEvents : e.shipmentId = sid}

\* st is the status of an event of shipment sid that no other event of the
\* shipment is later than
IsLatestStatus(sid, st) ==
    \E e \in EventsOf(sid) :
        /\ e.status = st
        /\ \A f \in EventsOf(sid) : f.timestamp <= e.timestamp

DerivedFromLog(sid, st) ==
    IF EventsOf(sid) = {} THEN st = StatusCreated ELSE IsLatestStatus(sid, st)

\* C1 as stated: in every reachable state every shipment's currentStatus is
\* the status of its latest-timestamp event, or "Created" when it has no
\* events.
C1_StatusAlwaysDerived ==
    \A s \in shipments : DerivedFromLog(s.id, s.currentStatus)

\* C1 amended: a shipment whose currentStatus was last written by the event
\* path (append, status-patching update, delete) carries the status of a
\* latest-timestamp event of its log, or "Created" when the log is empty; a
\* shipment whose currentStatus was last written by createShipment or
\* updateShipment carries the caller-supplied value.  Nothing is said of a
\* shipment marked "stale": one of its events had its status overwritten with
\* the empty string by an update that skipped the recalculation (C18).
C1_StatusDerivedWhenEventWritten ==
    \A s \in shipments :
        /\ statusSource[s.id] = "events" => DerivedFromLog(s.id, s.currentStatus)
        /\ statusSource[s.id] = "caller" =>
              s.currentStatus \in InitialStatuses \cup PatchStatuses

\* C1 witness: a shipment with two events of different timestamps and
\* statuses whose currentStatus, written by the event path, is the later one's.
C1_Witness ==
    \E s \in shipments : \E e, f \in EventsOf(s.id) :
        /\ e.timestamp < f.timestamp
        /\ e.status # f.status
        /\ statusSource[s.id] = "events"
        /\ s.currentStatus = f.status

ShipmentOwnedByOther(sid, org) ==
    \E s \in shipments : s.id = sid /\ s.organizationId # org

EventOwnedByOther(eid, org) ==
    \E e \in travelEvents : e.id = eid /\ ShipmentOwnedByOther(e.shipmentId, org)

\* C2: an event write addressed to another organization's shipment or event
\* fails with the same not-found error as one addressed to a nonexistent id
\* and changes no shipment's event log or currentStatus.
C2_TenantIsolationOfEventWrites ==
    [][ /\ (/\ result'.op = "addTravelEvent"
            /\ \/ ShipmentOwnedByOther(result'.id, result'.org)
               \/ ~\E s \in shipments : s.id = result'.id)
           => /\ result'.err = ErrShipmentNotFound
              /\ UNCHANGED <<shipments, travelEvents>>
        /\ (/\ result'.op \in {"updateTravelEvent", "deleteTravelEvent"}
            /\ \/ EventOwnedByOther(result'.id, result'.org)
               \/ ~\E e \in travelEvents : e.id = result'.id)
           => /\ result'.err = ErrEventNotFound
              /\ UNCHANGED <<shipments, travelEvents>>
      ]_vars

\* C2 witness: a deleteTravelEvent by another organization's caller was
\* answered "Travel event not found" while the event exists.
C2_Witness ==
    /\ result.op = "deleteTravelEvent"
    /\ result.err = ErrEventNotFound
    /\ EventOwnedByOther(result.id, result.org)

(***************************************************************************)
(* Properties of the shipment register.                                    *)
(***************************************************************************)
\* C3: getOrganizationShipments(orgId) returns exactly the shipments whose
\* organizationId is orgId: all of them and none of another organization.
C3_ListIsExactlyTheOrganizations ==
    result.op = "getOrganizationShipments" =>
        /\ \A s \in shipments :
              s.organizationId = result.org => s.id \in result.val
        /\ \A i \in result.val :
              \E s \in shipments : s.id = i /\ s.organizationId = result.org

\* C3 witness: a listing that returned a shipment while another organization
\* holds a shipment too.
C3_Witness ==
    /\ result.op = "getOrganizationShipments"
    /\ result.val # {}
    /\ \E s \in shipments : s.organizationId # result.org

HasTrackingNumber(ships, org, tn) ==
    \E s \in ships : s.organizationId = org /\ s.trackingNumber = tn

\* C5: a createShipment whose composed tracking number already exists in the
\* caller's organization fails with a message containing "exists" and leaves
\* the shipments unchanged; one whose composed tracking number exists only in
\* other organizations (or nowhere) succeeds and adds the shipment.
C5_DuplicateRejectedPerOrganization ==
    [][ (result'.op = "createShipment" /\ result'.key # <<>>) =>
          IF HasTrackingNumber(shipments, result'.org, result'.key)
          THEN /\ Includes(result'.err, <<"exists">>)
               /\ shipments' = shipments
          ELSE /\ result'.err = NoError
               /\ HasTrackingNumber(shipments', result'.org, result'.key)
               /\ Cardinality(shipments') = Cardinality(shipments) + 1
      ]_vars

\* C5 witness: a createShipment succeeded although another organization
\* already held the same tracking number, and a later one in the same
\* organization was refused.
C5_Witness ==
    /\ result.op = "createShipment"
    /\ Includes(result.err, <<"exists">>)
    /\ \E s, t \in shipments :
          /\ s.trackingNumber = result.key /\ t.trackingNumber = result.key
          /\ s.organizationId = result.org /\ t.organizationId # result.org
          /\ s.id > t.id

\* C6: getByTrackingNumber(tn) finds a shipment with that tracking number
\* whenever any organization holds one, and returns nothing only when none
\* does.
C6_PublicLookupIgnoresOrganization ==
    result.op = "getByTrackingNumber" =>
        /\ (result.val = {}) <=>
              ~\E s \in shipments : s.trackingNumber = result.key
        /\ \A i \in result.val :
              \E s \in shipments : s.id = i /\ s.trackingNumber = result.key

\* C6 witness: the lookup returned the second organization's shipment.
C6_Witness ==
    /\ result.op = "getByTrackingNumber"
    /\ \E s \in shipments : s.id \in result.val /\ s.organizationId = 2

FinishedFor(org, key) ==
    {q \in CallIds : /\ calls[q].pc = "done"
                     /\ calls[q].org = org
                     /\ calls[q].key = key}

\* C4: no two shipments share (organizationId, trackingNumber), also when
\* createShipment calls interleave between the existence check and the
\* insert; of the calls finished for one organization and tracking number
\* exactly one created a shipment, the store having refused the others.
C4_TrackingNumberUniquePerOrganization ==
    /\ \A s, t \in shipments :
          (s.organizationId = t.organizationId /\ s.trackingNumber = t.trackingNumber)
              => s.id = t.id
    /\ \A p \in CallIds :
          (calls[p].pc = "done" /\ calls[p].key # <<>>) =>
              Cardinality({q \in FinishedFor(calls[p].org, calls[p].key) :
                              calls[q].err = NoError}) = 1

\* C4 witness: two calls passed the existence check for the same
\* organization and tracking number; one inserted, the unique index refused
\* the other.
C4_Witness ==
    \E p, q \in CallIds :
        /\ q \in FinishedFor(calls[p].org, calls[p].key)
        /\ calls[p].pc = "done"
        /\ calls[p].err = NoError
        /\ calls[q].err = ErrUniqueConstraint

\* the log A(t=1), B(t=3), C(t=2) in that creation order, every call returned
AppendedABC ==
    /\ travelEvents =
          {[id |-> 1, shipmentId |-> 1, status |-> "A", timestamp |-> 1],
           [id |-> 2, shipmentId |-> 1, status |-> "B", timestamp |-> 3],
           [id |-> 3, shipmentId |-> 1, status |-> "C", timestamp |-> 2]}
    /\ \A p \in CallIds : calls[p].pc = "done"

\* C8 as stated: after appending A(t=1), B(t=3), C(t=2) in that creation
\* order, currentStatus is "B", the latest by timestamp.
C8_StatusIsLatestByTimestamp ==
    AppendedABC => \A s \in shipments : s.id = 1 => s.currentStatus = "B"

\* C8 amended: when an addTravelEvent call returns, the shipment's
\* currentStatus is the status of the event that call appended, whatever the
\* timestamps of the other events.
C8_AppendOverwritesStatus ==
    (result.op = "addTravelEvent" /\ result.err = NoError) =>
        \A s \in shipments :
            s.id = result.id =>
                \E e \in travelEvents :
                    /\ e.id \in result.val
                    /\ e.shipmentId = s.id
                    /\ s.currentStatus = e.status

\* C8 witness: the log is A(t=1), B(t=3), C(t=2) in creation order, C's call
\* returned last and the status is "C".
C8_Witness ==
    /\ AppendedABC
    /\ result.op = "addTravelEvent"
    /\ result.val = {3}
    /\ \E s \in shipments : s.id = 1 /\ s.currentStatus = "C"

(***************************************************************************)
(* Properties of signup and invitations.                                   *)
(***************************************************************************)
SlugTaken(orgs, slug) == \E o \in orgs : o.slug = slug

Suffixed(base, k) == base \o <<"-">> \o NatToString(k)

\* the slug the search gives name among orgs: the base slug when free, else
\* base-k for the smallest k >= 1 not taken, found within Cardinality(orgs)
\* increments
IsFirstFreeSlug(orgs, name, slug) ==
    IF ~SlugTaken(orgs, generateSlug(name))
    THEN slug = generateSlug(name)
    ELSE \E k \in 1..Cardinality(orgs) :
            /\ slug = Suffixed(generateSlug(name), k)
            /\ ~SlugTaken(orgs, slug)
            /\ \A j \in 1..(k - 1) : SlugTaken(orgs, Suffixed(generateSlug(name), j))

\* C9: a signup whose e-mail is new creates one organization whose slug is
\* the base slug of its name or, when that is taken, base-k for the smallest
\* k >= 1 not taken, the search ending within as many increments as there
\* are organizations; no two organizations ever share a slug.
C9_SlugsDistinctFirstFree ==
    [][ /\ (result'.op = "createOrganization" /\ result'.err # ErrUserExists) =>
              /\ result'.err = NoError
              /\ Cardinality(organizations' \ organizations) = 1
              /\ organizations \subseteq organizations'
              /\ \A o \in organizations' \ organizations :
                    IsFirstFreeSlug(organizations, o.name, o.slug)
        /\ \A o1, o2 \in organizations' : o1.slug = o2.slug => o1.id = o2.id
      ]_vars

\* C9 witness: two organizations named "Acme" and one named "Acme 1" hold
\* the slugs "acme", "acme-2" and "acme-1".
C9_Witness ==
    \E o1, o2, o3 \in organizations :
        /\ o1.name = NameAcme /\ o1.slug = <<"a","c","m","e">>
        /\ o2.name = NameAcme1 /\ o2.slug = <<"a","c","m","e","-","1">>
        /\ o3.name = NameAcme /\ o3.slug = <<"a","c","m","e","-","2">>

EmailInUse(us, email) == \E u \in us : u.email = email

\* C10: no two users share an e-mail address; a signup with an address some
\* user holds fails with a message containing "already exists" and creates
\* neither organization nor user; no step (signup or acceptInvitation) adds a
\* user whose address was in use.
C10_EmailGloballyUnique ==
    [][ /\ (/\ result'.op = "createOrganization"
            /\ \E e \in result'.val : EmailInUse(users, e))
           => /\ Includes(result'.err, <<"already", "exists">>)
              /\ UNCHANGED <<organizations, users>>
        /\ \A u \in users' \ users : ~EmailInUse(users, u.email)
        /\ \A u1, u2 \in users' : u1.email = u2.email => u1.id = u2.id
      ]_vars

\* C10 witness: an invitation to an address held by a user of another
\* organization was accepted and the store refused the second user.
C10_Witness ==
    /\ result.op = "acceptInvitation"
    /\ result.err = ErrUniqueConstraint
    /\ \E i \in invitations :
          /\ i.id = result.id
          /\ \E u \in users : u.email = i.email /\ u.organizationId # i.organizationId

\* C11: createInvitation by a caller whose role is member creates no
\* invitation: every invitation that appears was created by an owner.
C11_OnlyOwnersInvite ==
    [][ \A i \in invitations' \ invitations :
            \E u \in users : u.id = i.invitedByUserId /\ u.role = "owner"
      ]_vars

\* the invitations of (org, email) neither accepted nor past their expiry
LiveInvitations(invs, org, email, t) ==
    {i \in invs : /\ i.organizationId = org
                  /\ i.email = email
                  /\ i.acceptedAt = NullTime
                  /\ ~(i.expiresAt < t)}

\* C12: createInvitation(org, email) fails and creates no invitation when
\* the email belongs to a user of org or when an invitation of (org, email)
\* is neither accepted nor expired; in every state at most one such
\* invitation exists per (org, email).
C12_OneLiveInvitationPerOrgEmail ==
    [][ /\ (/\ result'.op = "createInvitation"
            /\ \E e \in result'.val :
                  \/ \E u \in users : u.email = e /\ u.organizationId = result'.org
                  \/ LiveInvitations(invitations, result'.org, e, now) # {})
           => /\ result'.err # NoError
              /\ invitations' = invitations
        /\ \A i, j \in invitations' :
              j \in LiveInvitations(invitations', i.organizationId, i.email, now')
                  /\ i \in LiveInvitations(invitations', i.organizationId, i.email, now')
                  => i.id = j.id
      ]_vars

\* C12 witness: a createInvitation was refused as already pending while the
\* pending invitation of the same organization and email exists.
C12_Witness ==
    /\ result.op = "createInvitation"
    /\ result.err = ErrInvitationPending
    /\ \E e \in result.val : LiveInvitations(invitations, result.org, e, now) # {}

\* C13: an invitation is created with expiresAt InviteDays after the current
\* time; acceptInvitation with a token whose expiresAt is before the current
\* time fails as invalid and one with an unknown token fails as not found,
\* and neither creates a user nor marks an invitation.
C13_ExpiryEvaluatedAtAccept ==
    [][ /\ \A i \in invitations' \ invitations :
              (i.id \notin {j.id : j \in invitations}) =>
                  i.expiresAt = now + InviteDays /\ i.acceptedAt = NullTime
        /\ (/\ result'.op = "acceptInvitation"
            /\ ~\E i \in invitations : i.id = result'.id)
           => /\ result'.err = ErrInvitationNotFound
              /\ UNCHANGED <<users, invitations>>
        /\ (/\ result'.op = "acceptInvitation"
            /\ \E i \in invitations : i.id = result'.id /\ i.expiresAt < now)
           => /\ result'.err = ErrInvitationInvalid
              /\ UNCHANGED <<users, invitations>>
      ]_vars

\* C13 witness: a never accepted invitation was presented past its expiry
\* and refused.
C13_Witness ==
    /\ result.op = "acceptInvitation"
    /\ result.err = ErrInvitationInvalid
    /\ \E i \in invitations :
          /\ i.id = result.id
          /\ i.acceptedAt = NullTime
          /\ i.expiresAt < now
          /\ ~\E u \in users : u.email = i.email

\* the calls that created a user from the invitation with token t
CreatedUserFrom(t) ==
    {p \in CallIds : calls[p].inv.id = t /\ calls[p].user # 0}

\* C14: for every invitation token at most one acceptInvitation call
\* succeeds and at most one call creates a user from the invitation, however
\* concurrent accepts of the token interleave.
C14_AtMostOneAcceptPerToken ==
    \A t \in InvitationIds :
        /\ Cardinality({p \in CallIds : /\ calls[p].pc = "done"
                                        /\ calls[p].eid = t
                                        /\ calls[p].inv.id = t
                                        /\ calls[p].err = NoError}) <= 1
        /\ Cardinality(CreatedUserFrom(t)) <= 1

\* C14 witness: two accepts of one token both passed the validity and
\* membership checks; one succeeded and the store refused the other's user.
C14_Witness ==
    \E p, q \in CallIds :
        /\ calls[p].pc = "done" /\ calls[q].pc = "done"
        /\ calls[p].inv.id # 0
        /\ calls[p].inv.id = calls[q].inv.id
        /\ calls[p].err = NoError
        /\ calls[q].err = ErrUniqueConstraint

(***************************************************************************)
(* Properties of utils/trackingNumber.                                     *)
(***************************************************************************)
IsLetter(c) == IsUpper(c) \/ IsLower(c)

\* position i holds the first letter of its whitespace-delimited token
IsWordStart(name, i) ==
    /\ IsLetter(name[i])
    /\ \A j \in 1..(i - 1) :
          (\A k \in j..(i - 1) : ~IsSpace(name[k])) => ~IsLetter(name[j])

\* the positions of the word starts, in order
WordStarts(name) ==
    SelectSeq([i \in 1..Len(name) |-> i], LAMBDA i : IsWordStart(name, i))

\* the letters of name, in upper case
LettersOf(name) == MapSeq(SelectSeq(name, IsLetter), toUpperCase)

\* the initials the rule gives a name with at least one letter
ExpectedInitials(name) ==
    LET starts == WordStarts(name)
    IN  IF Len(starts) = 1
        THEN SubSeq(LettersOf(name), 1,
                    IF Len(LettersOf(name)) < 3 THEN Len(LettersOf(name)) ELSE 3)
        ELSE [k \in 1..(IF Len(starts) < 4 THEN Len(starts) ELSE 4) |->
                  toUpperCase(name[starts[k]])]

\* C15: for a name with at least one letter generateOrgInitials returns 1
\* to 4 upper-case letters: the first 3 letters of a single word (all of a
\* shorter one), the first letters of two words, the first letters of three
\* or more words cut to 4; for a name without letters it fails.
C15_InitialsOneToFourUppercase ==
    result.op = "generateOrgInitials" =>
        IF \E i \in 1..Len(result.key) : IsLetter(result.key[i])
        THEN /\ result.err = NoError
             /\ result.val = {ExpectedInitials(result.key)}
             /\ \A v \in result.val :
                   /\ Len(v) \in 1..4
                   /\ \A i \in 1..Len(v) : IsUpper(v[i])
        ELSE /\ result.err # NoError
             /\ result.val = {}

\* C15 witness: a name of five words, with initials cut to four letters.
C15_Witness ==
    /\ result.op = "generateOrgInitials"
    /\ result.key = NameFiveWords
    /\ result.val = {<<"A", "B", "C", "D">>}

HasHyphen(s) == \E i \in 1..Len(s) : s[i] = "-"

IsBlank(s) == \A i \in 1..Len(s) : IsSpace(s[i])

\* t is s without its leading and trailing blanks
IsTrimOf(s, t) ==
    /\ t # <<>> => ~IsSpace(t[1]) /\ ~IsSpace(t[Len(t)])
    /\ \E a, b \in 0..Len(s) :
          /\ a + Len(t) + b = Len(s)
          /\ \A i \in 1..Len(s) :
                IF i <= a \/ i > a + Len(t) THEN IsSpace(s[i]) ELSE s[i] = t[i - a]

\* C16: for a valid organization name and a non-blank suffix,
\* generateTrackingNumber succeeds and parseTrackingNumber of its value gives
\* back the initials of the name and the trimmed suffix, hyphens in the suffix
\* included; generateTrackingNumber fails on a blank suffix;
\* parseTrackingNumber fails on a text without hyphen and otherwise splits at
\* the first hyphen.
C16_ParseInvertsGenerate ==
    /\ result.op = "generateTrackingNumber" =>
          /\ IsBlank(result.key[2]) => result.err # NoError /\ result.val = {}
          /\ (~IsBlank(result.key[2]) /\ generateOrgInitials(result.key[1]).ok) =>
                result.err = NoError /\ Cardinality(result.val) = 1
    /\ (result.op = "parseTrackingNumber" /\ Len(result.key) = 2) =>
          /\ result.err = NoError
          /\ \A v \in result.val :
                /\ v.orgInitials = generateOrgInitials(result.key[1]).val
                /\ IsTrimOf(result.key[2], v.userInput)
          /\ result.val # {}
    /\ (result.op = "parseTrackingNumber" /\ Len(result.key) = 1) =>
          IF HasHyphen(result.key[1])
          THEN /\ result.err = NoError
               /\ result.val # {}
               /\ \A v \in result.val :
                     /\ ~HasHyphen(v.orgInitials)
                     /\ v.orgInitials \o <<"-">> \o v.userInput = result.key[1]
          ELSE result.err # NoError /\ result.val = {}

\* C16 witness: a suffix with a hyphen inside and blanks around came back
\* trimmed and whole.
C16_Witness ==
    /\ result.op = "parseTrackingNumber"
    /\ result.key = <<NameReusLogistics, <<" ", "7", "-", "7">>>>
    /\ result.val = {[orgInitials |-> <<"R", "L">>, userInput |-> <<"7", "-", "7">>]}

\* C17: a successful addTravelEvent appends exactly one event, stamped with
\* the server's current time, to the target shipment's log, and overwrites
\* that shipment's currentStatus with the new event's status whatever it was;
\* every other event stays as it was and no other shipment changes.
C17_AppendFrame ==
    [][(result'.op = "addTravelEvent" /\ result'.err = NoError) =>
          \E e \in travelEvents' :
              /\ e \notin travelEvents
              /\ \A f \in travelEvents : f.id # e.id
              /\ travelEvents' = travelEvents \cup {e}
              /\ e.shipmentId = result'.id
              /\ e.timestamp = now
              /\ \E s \in shipments :
                    /\ s.id = result'.id
                    /\ shipments' = (shipments \ {s}) \cup
                                       {[s EXCEPT !.currentStatus = e.status]}]_vars

\* C17 witness: an append to one of two shipments overwrote a differing
\* status, while the other shipment keeps its own event and another status.
C17_Witness ==
    /\ result.op = "addTravelEvent"
    /\ result.err = NoError
    /\ \E s, t \in shipments : \E e, f \in travelEvents :
          /\ s.id = result.id
          /\ t.id # s.id
          /\ e.id \in result.val
          /\ e.shipmentId = s.id
          /\ f.shipmentId = t.id
          /\ s.currentStatus = e.status
          /\ t.currentStatus = f.status
          /\ t.currentStatus # s.currentStatus

\* C18: a successful updateTravelEvent recalculates exactly when its patch
\* carries a status: after a patch with a status the shipment's currentStatus
\* is the status of a latest-timestamp event of its log, after a patch without
\* one no currentStatus changed; the update leaves every event's timestamp and
\* owning shipment as they were.
C18_RecalculatesIffStatusPatched ==
    [][(result'.op = "updateTravelEvent" /\ result'.err = NoError) =>
          /\ result'.key # <<None>> =>
                \A s \in shipments' :
                    s.id \in result'.val => DerivedFromLog(s.id, s.currentStatus)'
          /\ result'.key = <<None>> => shipments' = shipments
          /\ \A e \in travelEvents : \E f \in travelEvents' :
                /\ f.id = e.id
                /\ f.timestamp = e.timestamp
                /\ f.shipmentId = e.shipmentId
          /\ Cardinality(travelEvents') = Cardinality(travelEvents)]_vars

ErrUnauthorized == <<"Unauthorized">>
ErrOnlyOwners == <<"Only", "organization", "owners", "can">>
ErrInvitationNotFoundOrAccepted ==
    <<"Invitation", "not", "found", "or", "already", "accepted">>
ErrInvitationExpired == <<"Invitation", "has", "expired">>
ErrCannotRemoveSelf == <<"You", "cannot", "remove", "yourself">>
ErrUserNotInOrg == <<"User", "not", "found", "in", "this", "organization">>
ErrForeignKey == <<"Foreign", "key", "constraint", "failed">>

\* UserRepository.findById
UserFindById(id) == {u \in users : u.id = id}

\* the requester as the service reads it: unknown or of another
\* organization (Unauthorized), not an owner, or an owner (NoError)
RequesterError(organizationId, requestingUserId) ==
    LET requestingUser == UserFindById(requestingUserId)
    IN  IF \/ requestingUser = {}
           \/ \E u \in requestingUser : u.organizationId # organizationId
        THEN ErrUnauthorized
        ELSE IF \E u \in requestingUser : u.role # "owner"
        THEN ErrOnlyOwners
        ELSE NoError

\* faulty variant of TargetInvitation: the invitations of every organization
TargetInvitation_Global(invs, organizationId, invitationId) ==
    {i \in invs : i.id = invitationId /\ i.acceptedAt = NullTime}

\* UserInvitationRepository.findByOrganization, then
\* find(inv => inv.id === invitationId && !inv.acceptedAt)
TargetInvitation(invs, organizationId, invitationId) ==
    {i \in invs : /\ i.organizationId = organizationId
                  /\ i.id = invitationId
                  /\ i.acceptedAt = NullTime}

cancelInvitation(organizationId, invitationId, requestingUserId) ==
    LET err == RequesterError(organizationId, requestingUserId)
        targetInvitation == TargetInvitation(invitations, organizationId, invitationId)
        fail(e) == /\ result' = Result("cancelInvitation", e, organizationId,
                                       invitationId, <<>>, {requestingUserId})
                   /\ UNCHANGED invitations
    IN  /\ IF err # NoError THEN fail(err)
           ELSE IF targetInvitation = {} THEN fail(ErrInvitationNotFoundOrAccepted)
           ELSE /\ invitations' = {i \in invitations : i.id # invitationId}
                /\ result' = Result("cancelInvitation", NoError, organizationId,
                                    invitationId, <<>>, {requestingUserId})
        /\ UNCHANGED <<organizations, users, nextUserId, nextInvitationId, now>>
        /\ UNCHANGED ledgerVars
        /\ UNCHANGED calls

\* faulty variant of resendInvitation: the invitation renewed for 7 days
resendInvitation_Renew(organizationId, invitationId, requestingUserId) ==
    /\ invitations' = {IF i.id = invitationId
                       THEN [i EXCEPT !.expiresAt = now + InviteDays] ELSE i :
                       i \in invitations}
    /\ result' = Result("resendInvitation", NoError, organizationId, invitationId,
                        <<requestingUserId>>, {invitationId})
    /\ UNCHANGED <<organizations, users, nextUserId, nextInvitationId, now>>
    /\ UNCHANGED ledgerVars
    /\ UNCHANGED calls

\* key: the requester; val: the token of the response (the invitation's id
\* stands for its token)
resendInvitation(organizationId, invitationId, requestingUserId) ==
    LET err == RequesterError(organizationId, requestingUserId)
        targetInvitation == TargetInvitation(invitations, organizationId, invitationId)
        fail(e) == result' = Result("resendInvitation", e, organizationId,
                                    invitationId, <<requestingUserId>>, {})
    IN  /\ IF err # NoError THEN fail(err)
           ELSE IF targetInvitation = {} THEN fail(ErrInvitationNotFoundOrAccepted)
           ELSE IF \E i \in targetInvitation : i.expiresAt < now
           THEN fail(ErrInvitationExpired)
           ELSE result' = Result("resendInvitation", NoError, organizationId,
                                 invitationId, <<requestingUserId>>,
                                 {i.id : i \in targetInvitation})
        /\ UNCHANGED identityVars
        /\ UNCHANGED now
        /\ UNCHANGED ledgerVars
        /\ UNCHANGED calls

\* faulty variant of UserDeleteAllowed: no foreign key refers to users
UserDeleteAllowed_NoForeignKeys(invs, ships, id) == TRUE

\* foreign keys ON DELETE RESTRICT: user_invitations.invited_by_user_id and
\* shipments.created_by_user_id
UserDeleteAllowed(invs, ships, id) ==
    /\ ~\E i \in invs : i.invitedByUserId = id
    /\ ~\E s \in ships : s.createdByUserId = id

\* prisma.userInvitation.deleteMany({ where: { organizationId, email } })
deleteManyInvitations(invs, organizationId, email) ==
    {i \in invs : ~(i.organizationId = organizationId /\ i.email = email)}

\* the two deletes are separate statements: when the foreign keys refuse the
\* second, the first is not undone
removeUser(organizationId, userIdToRemove, requestingUserId) ==
    LET err == RequesterError(organizationId, requestingUserId)
        userToRemove == UserFindById(userIdToRemove)
        email == (CHOOSE u \in userToRemove : TRUE).email
        fail(e) == /\ result' = Result("removeUser", e, organizationId,
                                       userIdToRemove, <<>>, {requestingUserId})
                   /\ UNCHANGED <<users, invitations>>
    IN  /\ IF err # NoError THEN fail(err)
           ELSE IF userIdToRemove = requestingUserId THEN fail(ErrCannotRemoveSelf)
           ELSE IF \/ userToRemove = {}
                   \/ \E u \in userToRemove : u.organizationId # organizationId
           THEN fail(ErrUserNotInOrg)
           ELSE /\ invitations' = deleteManyInvitations(invitations, organizationId, email)
                /\ IF UserDeleteAllowed(invitations', shipments, userIdToRemove)
                   THEN /\ users' = {u \in users : u.id # userIdToRemove}
                        /\ result' = Result("removeUser", NoError, organizationId,
                                            userIdToRemove, <<>>, {requestingUserId})
                   ELSE /\ UNCHANGED users
                        /\ result' = Result("removeUser", ErrForeignKey, organizationId,
                                            userIdToRemove, <<>>, {requestingUserId})
        /\ UNCHANGED <<organizations, nextUserId, nextInvitationId, now>>
        /\ UNCHANGED ledgerVars
        /\ UNCHANGED calls

(***************************************************************************)
(* The team of an organization: owners and members invited, invitations    *)
(* cancelled and resent, users removed, shipments created by them.         *)
(***************************************************************************)
TeamRoles == {"member", "owner"}

TeamCreateInvitation ==
    /\ nextInvitationId <= MaxInvitations
    /\ \E u \in users, e \in IdentEmails, r \in TeamRoles :
          createInvitation(u.organizationId, u.id, e, r)

CancelInvitation ==
    \E u \in users, i \in InvitationIds : cancelInvitation(u.organizationId, i, u.id)

ResendInvitation ==
    \E u \in users, i \in InvitationIds : resendInvitation(u.organizationId, i, u.id)

RemoveUser ==
    \E u, t \in users : removeUser(u.organizationId, t.id, u.id)

TeamCreateShipment ==
    /\ shipments = {}
    /\ \E u \in users : createShipment(<<"7">>, "picked-up", u.organizationId, u.id)

NextTeam ==
    \/ Signup
    \/ TeamCreateInvitation
    \/ AcceptInvitation
    \/ CancelInvitation
    \/ ResendInvitation
    \/ RemoveUser
    \/ TeamCreateShipment
    \/ DaysPass

SpecTeam == Init /\ [][NextTeam]_vars

\* C21: in every state every organization has an owner: a user with role
\* owner that belongs to it and that ownerUserId refers to; and every user
\* belongs to an organization that exists.
C21_OrganizationHasItsOwner ==
    /\ \A o \in organizations : \E u \in users :
          /\ u.id = o.ownerUserId
          /\ u.organizationId = o.id
          /\ u.role = "owner"
    /\ \A u \in users : \E o \in organizations : o.id = u.organizationId

(***************************************************************************)
(* acceptInvitation in steps, with invitations cancelled in between.       *)
(***************************************************************************)
NextCancelRace ==
    \/ Signup
    \/ CreateInvitation
    \/ AcceptInvitationFind
    \/ AcceptInvitationIsValid
    \/ AcceptInvitationCheckUser
    \/ AcceptInvitationCreate
    \/ AcceptInvitationMarkAsAccepted
    \/ CancelInvitation

SpecCancelRace == Init /\ [][NextCancelRace]_vars

\* C22: the two writes of acceptInvitation are one: an accept that reported
\* failure created no user, and an accept that created a user reported
\* success and left its invitation marked accepted.
C22_AcceptWritesAreAtomic ==
    \A p \in CallIds :
        calls[p].pc = "done" =>
            /\ calls[p].err # NoError => calls[p].user = 0
            /\ calls[p].user # 0 =>
                  /\ calls[p].err = NoError
                  /\ \E i \in invitations :
                        i.id = calls[p].inv.id /\ i.acceptedAt # NullTime

\* the invitation can still be accepted at time t
Acceptable(i, t) == i.acceptedAt = NullTime /\ ~(i.expiresAt < t)

\* C23: resendInvitation leaves every invitation as it was; it succeeds
\* exactly when the caller is an owner of the organization and the invitation
\* is one of that organization, not accepted and not expired, and then it
\* returns the token of that invitation.  No step makes an invitation that is
\* accepted or expired acceptable again.
C23_ResendModifiesNothing ==
    [][/\ result'.op = "resendInvitation" =>
             /\ invitations' = invitations
             /\ result'.err = NoError <=>
                   /\ \E u \in users : /\ u.id = result'.key[1]
                                       /\ u.organizationId = result'.org
                                       /\ u.role = "owner"
                   /\ \E i \in invitations : /\ i.id = result'.id
                                             /\ i.organizationId = result'.org
                                             /\ Acceptable(i, now)
             /\ result'.err = NoError => result'.val = {result'.id}
             /\ result'.err # NoError => result'.val = {}
       /\ \A i \in invitations : \A j \in invitations' :
             (j.id = i.id /\ ~Acceptable(i, now)) => ~Acceptable(j, now')]_vars

\* C23 witness: an owner resent an invitation on the day it expires, while
\* an accepted invitation and a member exist too.
C23_Witness ==
    /\ result.op = "resendInvitation"
    /\ result.err = NoError
    /\ \E i, j \in invitations :
          /\ i.id = result.id
          /\ i.expiresAt = now
          /\ i.acceptedAt = NullTime
          /\ j.acceptedAt # NullTime

\* C24: cancelInvitation succeeds exactly when the caller is an owner of the
\* organization and the invitation is an unaccepted one of that organization;
\* then it deletes that invitation and nothing else, and the id (the token)
\* is never used again.  Otherwise every invitation stays: a member is told
\* that only owners can cancel, and an accepted invitation or one of another
\* organization is reported as not found.
C24_CancelDeletesOnlyOwnPending ==
    [][/\ result'.op = "cancelInvitation" =>
             LET owner == \E u \in users : /\ u.id \in result'.val
                                           /\ u.organizationId = result'.org
                                           /\ u.role = "owner"
                 target == {i \in invitations : /\ i.id = result'.id
                                                /\ i.organizationId = result'.org
                                                /\ i.acceptedAt = NullTime}
             IN  /\ result'.err = NoError <=> (owner /\ target # {})
                 /\ result'.err = NoError =>
                       /\ invitations' = invitations \ target
                       /\ Cardinality(invitations') = Cardinality(invitations) - 1
                 /\ result'.err # NoError => invitations' = invitations
                 /\ ~owner => Includes(result'.err, <<"Only", "organization", "owners">>)
                 /\ (owner /\ target = {}) => Includes(result'.err, <<"not", "found">>)
                 /\ users' = users
       /\ \A j \in invitations' :
             (\A i \in invitations : i.id # j.id) => j.id = nextInvitationId]_vars

\* C24 witness: after the days of an expiry have passed an owner cancelled
\* an invitation of the own organization, and a younger invitation of the
\* other organization stays.
C24_Witness ==
    /\ result.op = "cancelInvitation"
    /\ result.err = NoError
    /\ now > InviteDays
    /\ \A i \in invitations : i.id # result.id
    /\ \E j \in invitations : j.organizationId # result.org /\ j.id > result.id

\* C25: removeUser succeeds only when the requester is an owner of the
\* organization and the target is another user of the same organization; in
\* every other case it fails and deletes nothing.  On success exactly the
\* target user and the invitations of the user's e-mail address in the
\* organization are removed, and every shipment and travel event stays.
C25_RemoveUserAllOrNothing ==
    [][result'.op = "removeUser" =>
          LET target == {u \in users : u.id = result'.id}
          IN  /\ result'.err = NoError =>
                    /\ \E u \in users : /\ u.id \in result'.val
                                        /\ u.organizationId = result'.org
                                        /\ u.role = "owner"
                    /\ \E t \in target : /\ t.id \notin result'.val
                                         /\ t.organizationId = result'.org
                    /\ users' = users \ target
                    /\ \A i \in invitations :
                          i \notin invitations' <=>
                              \E t \in target : /\ i.email = t.email
                                                /\ i.organizationId = result'.org
                    /\ invitations' \subseteq invitations
              /\ result'.err # NoError =>
                    /\ users' = users
                    /\ invitations' = invitations
              /\ shipments' = shipments
              /\ travelEvents' = travelEvents]_vars

(***************************************************************************)
(* deleteTravelEvent in steps, racing with addTravelEvent and with other   *)
(* deletes on one shipment.  recalculateShipmentStatus reads the log in    *)
(* one round trip and writes the status in another.                        *)
(***************************************************************************)
\* what a failed round trip to the data store throws
ErrDataStore == <<"Can't", "reach", "database", "server">>

\* deleteTravelEvent up to its first await: the scoped lookup
DeleteTravelEventFind ==
    \E p \in CallIds, u \in users, eventId \in EventIds :
        LET event == findTravelEventByIdAndOrganization(eventId, u.organizationId)
        IN  /\ \A q \in CallIds : q < p => calls[q].pc # "idle"
            /\ calls[p].pc = "idle"
            /\ IF event = {}
               THEN /\ result' = Result("deleteTravelEvent", ErrEventNotFound,
                                        u.organizationId, eventId, <<>>, {})
                    /\ calls' = [CallDone(p, ErrEventNotFound) EXCEPT ![p].eid = eventId]
               ELSE /\ calls' = [calls EXCEPT ![p] =
                           [IdleCall EXCEPT !.pc = "delete", !.org = u.organizationId,
                                            !.eid = eventId,
                                            !.sid = (CHOOSE e \in event : TRUE).shipmentId]]
                    /\ UNCHANGED result
            /\ UNCHANGED now
            /\ UNCHANGED identityVars
            /\ UNCHANGED ledgerVars

\* ShipmentRepository.deleteTravelEvent: the delete throws when the row is
\* gone
DeleteTravelEventDelete ==
    \E p \in CallIds :
        LET c == calls[p]
        IN  /\ c.pc = "delete"
            /\ IF \E e \in travelEvents : e.id = c.eid
               THEN /\ travelEvents' = {e \in travelEvents : e.id # c.eid}
                    /\ calls' = [calls EXCEPT ![p].pc = "recalculateRead"]
                    /\ UNCHANGED result
               ELSE /\ result' = Result("deleteTravelEvent", ErrRecordNotFound, c.org,
                                        c.eid, <<>>, {})
                    /\ calls' = CallDone(p, ErrRecordNotFound)
                    /\ UNCHANGED travelEvents
            /\ UNCHANGED <<shipments, nextEventId, statusSource, now>>
            /\ UNCHANGED identityVars

\* recalculateShipmentStatus, first round trip: findTravelEventsByShipment
\* and the choice of events[0]; or the round trip fails, and nothing catches
\* what it throws
RecalculateRead ==
    \E p \in CallIds :
        LET c == calls[p]
        IN  /\ c.pc = "recalculateRead"
            /\ \/ /\ \E st \in RecalculatedStatuses(travelEvents, c.sid) :
                        calls' = [calls EXCEPT ![p].pc = "recalculateWrite",
                                               ![p].status = st]
                  /\ UNCHANGED result
               \/ /\ calls' = CallDone(p, ErrDataStore)
                  /\ result' = Result("deleteTravelEvent", ErrDataStore, c.org, c.eid,
                                      <<>>, {c.sid})
            /\ UNCHANGED now
            /\ UNCHANGED identityVars
            /\ UNCHANGED ledgerVars

\* faulty variant of RecalculateWrite: the status taken from the log as it
\* is at the time of the write
RecalculateWrite_Fresh ==
    \E p \in CallIds :
        LET c == calls[p]
        IN  /\ c.pc = "recalculateWrite"
            /\ recalculateShipmentStatus(travelEvents, c.sid)
            /\ result' = Result("deleteTravelEvent", NoError, c.org, c.eid, <<>>, {c.sid})
            /\ calls' = CallDone(p, NoError)
            /\ UNCHANGED <<travelEvents, nextEventId, now>>
            /\ UNCHANGED identityVars

\* recalculateShipmentStatus, second round trip: updateStatus with the
\* status chosen from what was read; then deleteTravelEvent returns
RecalculateWrite ==
    \E p \in CallIds :
        LET c == calls[p]
        IN  /\ c.pc = "recalculateWrite"
            /\ shipments' = updateStatus(shipments, c.sid, c.status)
            /\ statusSource' = SetSource(c.sid, "events")
            /\ result' = Result("deleteTravelEvent", NoError, c.org, c.eid, <<>>, {c.sid})
            /\ calls' = CallDone(p, NoError)
            /\ UNCHANGED <<travelEvents, nextEventId, now>>
            /\ UNCHANGED identityVars

NextRecalcRace ==
    \/ LogSignup
    \/ RaceCreateShipment
    \/ AddTravelEventFind
    \/ AddTravelEventInsert
    \/ AddTravelEventUpdateStatus
    \/ DeleteTravelEventFind
    \/ DeleteTravelEventDelete
    \/ RecalculateRead
    \/ RecalculateWrite
    \/ RaceClockTick

SpecRecalcRace == Init /\ [][NextRecalcRace]_vars

\* C26: a failure of the recalculation does not fail the outer operation: a
\* deleteTravelEvent that has deleted its event and is recalculating ends
\* with success.
C26_RecalculationFailureIsSwallowed ==
    [][\A p \in CallIds :
          (/\ calls[p].pc \in {"recalculateRead", "recalculateWrite"}
           /\ calls'[p].pc = "done") =>
              /\ calls'[p].err = NoError
              /\ result'.err = NoError]_vars

\* C27: recalculation is a read and a later write: the read chooses the
\* status of a latest event of the log as it is then ("Created" for an empty
\* log), and the write stores that status whatever the log has become.
C27_RecalculationWritesWhatItRead ==
    [][\A p \in CallIds :
          /\ (calls[p].pc = "recalculateRead" /\ calls'[p].pc = "recalculateWrite") =>
                DerivedFromLog(calls[p].sid, calls'[p].status)
          /\ (calls[p].pc = "recalculateWrite" /\ calls'[p].pc = "done") =>
                \A s \in shipments' :
                    s.id = calls[p].sid => s.currentStatus = calls[p].status]_vars

\* C27 witness: a delete and an append raced; both are complete, no call is
\* in flight, an event survives and currentStatus is the "Created" of the
\* empty log the delete had read.
C27_Witness ==
    /\ \A p \in CallIds : calls[p].pc \in {"idle", "done"}
    /\ result.op = "deleteTravelEvent"
    /\ result.err = NoError
    /\ \E s \in shipments :
          /\ s.id \in result.val
          /\ EventsOf(s.id) # {}
          /\ s.currentStatus = StatusCreated
          /\ ~DerivedFromLog(s.id, s.currentStatus)


(***************************************************************************)
(* Public tracking across organizations                                    *)
(***************************************************************************)

\* C28: public tracking is unambiguous: no two shipments carry the same
\* full tracking number, and getByTrackingNumber(s.trackingNumber) returns
\* the shipment s itself for every shipment s holding that number.
C28_PublicTrackingUnambiguous ==
    /\ \A s, t \in shipments :
          s.trackingNumber = t.trackingNumber => s.id = t.id
    /\ result.op = "getByTrackingNumber" =>
          \A s \in shipments :
              s.trackingNumber = result.key => result.val = {s.id}


(***************************************************************************)
(* removeUser in steps, one per data-store round trip.  The requester was  *)
(* a user when requireAuth let the request in.                             *)
(***************************************************************************)
\* removeUser up to its second await: the requester's lookup, the role and
\* the self-removal checks
RemoveUserFindRequester ==
    \E p \in CallIds, u, t \in users :
        LET err == IF RequesterError(u.organizationId, u.id) # NoError
                   THEN RequesterError(u.organizationId, u.id)
                   ELSE IF t.id = u.id THEN ErrCannotRemoveSelf ELSE NoError
        IN  /\ \A q \in CallIds : q < p => calls[q].pc # "idle"
            /\ calls[p].pc = "idle"
            /\ IF err # NoError
               THEN /\ result' = Result("removeUser", err, u.organizationId, t.id,
                                        <<>>, {u.id})
                    /\ calls' = [CallDone(p, err) EXCEPT ![p].eid = t.id]
               ELSE /\ calls' = [calls EXCEPT ![p] =
                           [IdleCall EXCEPT !.pc = "findTarget", !.org = u.organizationId,
                                            !.user = u.id, !.eid = t.id]]
                    /\ UNCHANGED result
            /\ UNCHANGED now
            /\ UNCHANGED identityVars
            /\ UNCHANGED ledgerVars

\* UserRepository.findById(userIdToRemove) and the membership check
RemoveUserFindTarget ==
    \E p \in CallIds :
        LET c == calls[p]
            userToRemove == UserFindById(c.eid)
        IN  /\ c.pc = "findTarget"
            /\ IF \/ userToRemove = {}
                  \/ \E u \in userToRemove : u.organizationId # c.org
               THEN /\ result' = Result("removeUser", ErrUserNotInOrg, c.org, c.eid,
                                        <<>>, {c.user})
                    /\ calls' = CallDone(p, ErrUserNotInOrg)
               ELSE /\ \E u \in userToRemove :
                          calls' = [calls EXCEPT ![p].pc = "deleteInvitations",
                                                 ![p].inv.email = u.email]
                    /\ UNCHANGED result
            /\ UNCHANGED now
            /\ UNCHANGED identityVars
            /\ UNCHANGED ledgerVars

\* prisma.userInvitation.deleteMany for the e-mail read from userToRemove
RemoveUserDeleteInvitations ==
    \E p \in CallIds :
        LET c == calls[p]
        IN  /\ c.pc = "deleteInvitations"
            /\ invitations' = deleteManyInvitations(invitations, c.org, c.inv.email)
            /\ calls' = [calls EXCEPT ![p].pc = "deleteUser"]
            /\ UNCHANGED <<organizations, users, nextUserId, nextInvitationId, now,
                           result>>
            /\ UNCHANGED ledgerVars

\* prisma.user.delete({ where: { id: userIdToRemove } }): throws when the
\* row is gone or a foreign key refuses; then the return
RemoveUserDelete ==
    \E p \in CallIds :
        LET c == calls[p]
            err == IF UserFindById(c.eid) = {} THEN ErrRecordNotFound
                   ELSE IF ~UserDeleteAllowed(invitations, shipments, c.eid)
                        THEN ErrForeignKey
                        ELSE NoError
        IN  /\ c.pc = "deleteUser"
            /\ users' = IF err = NoError THEN {u \in users : u.id # c.eid} ELSE users
            /\ result' = Result("removeUser", err, c.org, c.eid, <<>>, {c.user})
            /\ calls' = CallDone(p, err)
            /\ UNCHANGED <<organizations, invitations, nextUserId, nextInvitationId,
                           now>>
            /\ UNCHANGED ledgerVars

\* one organization signs up
RemoveRaceSignup ==
    /\ organizations = {}
    /\ createOrganization(NameAcme, 1)

NextRemoveRace ==
    \/ RemoveRaceSignup
    \/ TeamCreateInvitation
    \/ AcceptInvitation
    \/ RemoveUserFindRequester
    \/ RemoveUserFindTarget
    \/ RemoveUserDeleteInvitations
    \/ RemoveUserDelete

SpecRemoveRace == Init /\ [][NextRemoveRace]_vars

\* C29: every organization has at least one user with role owner, in every
\* reachable state, whatever the interleaving of acceptInvitation and
\* removeUser calls.
C29_EveryOrganizationHasAnOwner ==
    \A o \in organizations :
        \E u \in users : u.organizationId = o.id /\ u.role = "owner"


\* C30: once an invitation for (organization, e-mail) has expired without
\* being accepted, an owner's createInvitation for the same pair succeeds:
\* it stores a new invitation with a fresh token and an expiry InviteDays
\* from now, and the expired invitation did not have to be cancelled first.
\* (The organization's users are all owners, so the requester is one.)
C30_RecreateAfterExpiry ==
    [][ ( /\ result'.op = "createInvitation"
          /\ \A u \in users : u.organizationId = result'.org => u.role = "owner"
          /\ \A u \in users : ~(u.organizationId = result'.org /\ u.email \in result'.val)
          /\ \E i \in invitations :
                i.organizationId = result'.org /\ i.email \in result'.val
          /\ \A i \in invitations :
                (i.organizationId = result'.org /\ i.email \in result'.val) =>
                    (i.acceptedAt = NullTime /\ i.expiresAt < now) )
        => /\ result'.err = NoError
           /\ \E j \in invitations' \ invitations :
                 /\ j.id = result'.id
                 /\ j.id \notin {i.id : i \in invitations}
                 /\ j.organizationId = result'.org
                 /\ j.email \in result'.val
                 /\ j.expiresAt = now + InviteDays
                 /\ j.acceptedAt = NullTime
      ]_vars

====
